---------------------------- MODULE Spec2Model ----------------------------
(***************************************************************************)
(* Model of the geometry ingestion pipeline of tawy (src/render/model.c):  *)
(* new(Model, file, texture) -> Model__init__ -> load_model ->             *)
(* scan_obj_file (first pass) and fill_vertices (second pass), followed by *)
(* the GL upload of Model__init__ and by enable() of the main loop.        *)
(*                                                                         *)
(* A source file is a sequence of lines.  A line is a record               *)
(*   [k |-> marker, f |-> numbers after the marker, c |-> face corners]    *)
(* where k is the text the line starts with ("v", "vt", "vn", "f", or "#"  *)
(* for anything else), f the whitespace separated numbers of a "v"/"vt"    *)
(* line and c the corners of an "f" line, each corner being the sequence   *)
(* of its slash separated integer sub-fields.                              *)
(*                                                                         *)
(* An unsigned int is held as the integer with the same 32 bits (two's     *)
(* complement), so "-1" read into an unsigned int is -1 here and compares  *)
(* as 0xFFFFFFFF through ULt.                                              *)
(***************************************************************************)
EXTENDS Integers, Sequences, FiniteSets, TLC

\* ------------------------------------------------------------------ bounds
\* longest source built from arbitrary lines in arbitrary order
MaxLines == 3
\* largest index a face names, and the most "v " / "vt " lines of a prelude
MaxIdx == 2
\* calls of enable() made by the main loop
MaxEnable == 1
MaxLoads == 2
MaxArgs == 3
MaxNames == 17

\* model.h line 38: texture *texture[16]
TextureCapacity == 16

\* ------------------------------------------------------- values and inputs
\* what a field of obj holds before anything was stored in it
Unset == -7

\* values an out-of-bounds read may deliver
Garbage == {0, 5}

VLine(fs) == [k |-> "v", f |-> fs, c |-> <<>>]
VtLine(fs) == [k |-> "vt", f |-> fs, c |-> <<>>]
VnLine == [k |-> "vn", f |-> <<0, 0, 1>>, c |-> <<>>]
OtherLine == [k |-> "#", f |-> <<>>, c |-> <<>>]
FLine(cs) == [k |-> "f", f |-> <<>>, c |-> cs]

\* the i-th "v " line and the j-th "vt " line of a prelude
PreV(i) == VLine(<<10 * i + 1, 10 * i + 2, 10 * i + 3>>)
PreVt(j) == VtLine(<<100 + 10 * j + 1, 100 + 10 * j + 2>>)

\* nv well-formed "v " lines followed by nt well-formed "vt " lines
Prelude(nv, nt) == [i \in 1..nv |-> PreV(i)] \o [j \in 1..nt |-> PreVt(j)]

\* indices a face corner may carry: negative, zero, in range, out of range
Idx == (-1)..MaxIdx
InIdx == 1..MaxIdx

AllCorners == {<<p, t, 1>> : p \in Idx, t \in Idx}
InCorners == {<<p, t, 1>> : p \in InIdx, t \in InIdx}
Filler == <<MaxIdx, MaxIdx, 1>>

\* a face whose k-th corner is c, the other two being the filler
Put(c, k) == [j \in 1..3 |-> IF j = k THEN c ELSE Filler]

FullFaces == {FLine(<<a, b, c>>) : a \in InCorners, b \in InCorners, c \in InCorners}
OneOffFaces == {FLine(Put(c, k)) : c \in AllCorners, k \in 1..3}
PairFaces == {FLine(Put(c, k)) : c \in InCorners, k \in 1..3}

\* faces of another shape: two corners, four corners (a quad), a corner of
\* two sub-fields, a corner of one sub-field, a last corner of four
QuadFace == FLine(<<<<1, 1, 1>>, <<1, 1, 1>>, <<1, 1, 1>>, <<1, 1, 1>>>>)
LongCornerFace == FLine(<<<<1, 1, 1>>, <<1, 1, 1>>, <<1, 1, 1, 1>>>>)
ShortFaces == { FLine(<<<<1, 1, 1>>, <<1, 1, 1>>>>),
                FLine(<<<<1, 1, 1>>, <<1, 1, 1>>, <<1, 1>>>>),
                FLine(<<<<1, 1, 1>>, <<1>>, <<1, 1, 1>>>>),
                FLine(<<<<1>>, <<1>>, <<1>>>>) }
ShapeFaces == ShortFaces \cup {QuadFace, LongCornerFace}

\* lines of the sources built in arbitrary order
GoodFace == FLine(<<<<1, 1, 1>>, <<1, 1, 1>>, <<1, 1, 1>>>>)
ShortLines ==
  { VLine(<<1, 2, 3>>), VLine(<<1, 2>>), VtLine(<<4, 5>>), VtLine(<<4>>),
    VnLine, OtherLine, GoodFace,
    FLine(<<<<1, 1, 1>>, <<0, 1, 1>>, <<1, 1, 1>>>>),
    FLine(<<<<1, 1, 1>>, <<1, 1, 1>>, <<1, 1>>>>),
    QuadFace }

ArbitraryFiles == UNION {[1..n -> ShortLines] : n \in 0..MaxLines}
OneFaceFiles ==
  {Prelude(nv, nt) \o <<fl>> :
     nv \in 0..MaxIdx, nt \in 0..MaxIdx,
     fl \in FullFaces \cup OneOffFaces \cup ShapeFaces}
TwoFaceFiles ==
  {Prelude(nv, nt) \o <<f1, f2>> :
     nv \in 0..MaxIdx, nt \in 0..MaxIdx, f1 \in PairFaces, f2 \in PairFaces}
\* a malformed line after a face, after a prelude
LateErrorFiles ==
  {Prelude(MaxIdx, MaxIdx) \o <<fl, bad>> :
     fl \in PairFaces \cup {QuadFace},
     bad \in {VLine(<<1, 2>>), VtLine(<<4>>)} \cup ShortFaces}

\* a face with a normal sub-field of 0 in its k-th corner, after a prelude
NormalZeroFiles ==
  {Prelude(MaxIdx, MaxIdx) \o <<FLine(Put(<<1, 1, 0>>, k))>> : k \in 1..3}

\* scenario 1 of the specification: one triangle
OneTriangle ==
  << VLine(<<0, 0, 0>>), VLine(<<1, 0, 0>>), VLine(<<0, 1, 0>>),
     VtLine(<<0, 0>>), VtLine(<<1, 0>>), VtLine(<<0, 1>>),
     FLine(<<<<1, 1, 1>>, <<2, 2, 1>>, <<3, 3, 1>>>>) >>

\* scenario 6 of the specification: a quad of two triangles that share
\* positions 2 and 3, each with the same texcoord on both uses
QuadOfTriangles ==
  << VLine(<<0, 0, 0>>), VLine(<<1, 0, 0>>), VLine(<<0, 1, 0>>),
     VLine(<<1, 1, 0>>),
     VtLine(<<0, 0>>), VtLine(<<1, 0>>), VtLine(<<0, 1>>), VtLine(<<1, 1>>),
     FLine(<<<<1, 1, 1>>, <<2, 2, 1>>, <<3, 3, 1>>>>),
     FLine(<<<<2, 2, 1>>, <<4, 4, 1>>, <<3, 3, 1>>>>) >>

ScenarioFiles == {OneTriangle, QuadOfTriangles}

\* the sources that are loaded more than once
TwiceFiles == {f \in ArbitraryFiles : Len(f) < MaxLines} \cup ScenarioFiles

Files ==
  ArbitraryFiles \cup OneFaceFiles \cup TwoFaceFiles \cup LateErrorFiles
    \cup NormalZeroFiles \cup ScenarioFiles

\* ------------------------------------------------- pure parts of the code
Min(a, b) == IF a < b THEN a ELSE b

\* a < b on unsigned ints held as their 32-bit patterns
ULt(a, b) == IF (a < 0) = (b < 0) THEN a < b ELSE b < 0

\* strncmp(line, "v ", 2), (line, "vt ", 3), (line, "vn ", 3), (line, "f ", 2)
IsV(line) == line.k = "v"
IsVt(line) == line.k = "vt"
IsVn(line) == line.k = "vn"
IsF(line) == line.k = "f"

\* sscanf(line + 2, "%f %f %f", ...) and sscanf(line + 3, "%f %f", ...):
\* the number of conversions made
ScanFloats(line, want) == Min(Len(line.f), want)

\* sscanf(line + 2, "%d/%u/%u %d/%u/%u %d/%u/%u", ...): the number of
\* conversions made.  Corner j is converted sub-field by sub-field; the
\* scan stops at the first corner that has not exactly three sub-fields
\* (after three of them are converted, if it has more), and after the
\* third corner whatever follows it.
RECURSIVE ScanCorners(_, _)
ScanCorners(cs, j) ==
  IF j > 3 \/ j > Len(cs) THEN 0
  ELSE IF Len(cs[j]) < 3 THEN Len(cs[j])
  ELSE IF Len(cs[j]) > 3 THEN 3
  ELSE 3 + ScanCorners(cs, j + 1)

ScanFace(line) == ScanCorners(line.c, 1)

\* the position sub-fields converted by a scan of sc conversions:
\* corner j (1..3) has its position stored iff 3 * (j - 1) + 1 <= sc
PosStored(sc, j) == 3 * (j - 1) + 1 <= sc

\* the test of lines 170-171 had it looked at the position indices only
ZeroIndexTestPositionsOnly(is, ts) ==
  is[1] = 0 \/ is[2] = 0 \/ is[3] = 0

\* line 170-171: some position or texcoord index of the face equals 0
ZeroIndexTest(is, ts) ==
  \/ is[1] = 0 \/ is[2] = 0 \/ is[3] = 0
  \/ ts[1] = 0 \/ ts[2] = 0 \/ ts[3] = 0

\* the test of line 185 had it not exempted the entry 0
ConflictTestStrict(old, new) == old # new

\* line 185: the table entry is taken and differs from the texcoord offset
ConflictTest(old, new) == old # 0 /\ old # new

\* ------------------------------------------------------------------ state
VARIABLES
  file,       \* the source at path: its lines, the same for both passes
  pc,         \* where the construction stands
  rd,         \* lines read so far by the pass that is running
  vcount,     \* load_model: number of "v " lines counted
  tcount,     \* load_model: number of "vt " lines counted
  icount,     \* load_model: number of "f " lines counted
  ncount,     \* load_model: number of "vn " lines counted
  vbuf,       \* *vertices: vcount * 8 floats
  ibuf,       \* *indices: icount * 3 unsigned ints
  textures,   \* fill_vertices: temporary texcoords, tcount * 2 floats
  table,      \* fill_vertices: texcoord offset of each position, vcount ints
  vptr,       \* fill_vertices: vertex records written (vptr - v) / 8
  tptr,       \* fill_vertices: texcoord records written (tptr - textures) / 2
  iptr,       \* fill_vertices: faces written (i - indices) / 3
  err,        \* the error message printed, by kind
  ub,         \* an access outside an allocated block has happened
  vmem,       \* the block behind *vertices: "null", "live" or "freed"
  imem,       \* the block behind *indices: "null", "live" or "freed"
  tmpmem,     \* the blocks behind textures and table: "none", "live", "freed"
  handles,    \* FILE handles open
  obj,        \* the model instance: vertices, elements, texture
  glObjects,  \* GL names generated for the instance
  gpu,        \* the data handed to glBufferData, in call order
  m,          \* what new(Model, ...) returned: "pending", "obj" or "NULL"
  enables,    \* calls of enable(m, NULL) made
  drawn,      \* Model__enable__ has drawn the instance
  state,      \* the assembler: "Idle", "Scanning", "Resolving", "Done", "Failed"
  prev,       \* what the earlier constructions of the same source gave
  args,       \* enable / delete: the instances passed, before the last NULL
  op,         \* the call that is running: "none", "enable" or "delete"
  ai,         \* enable / delete: arguments the loop has gone through
  calls,      \* enable / delete: the arguments whose handler was invoked
  ret,        \* enable: ret
  dpc,        \* enable / delete: "idle", "loop" or "returned"
  names,      \* Model__init__: the texture names passed, before the NULL
  cnt,        \* Model__init__: cnt
  slots,      \* obj->texture[0..15]
  texture_cnt, \* obj->texture_cnt
  over,       \* a slot outside obj->texture[0..15] has been written
  ipc,        \* Model__init__: "idle", "loop", "returned" or "crashed"
  mpc,        \* where main stands
  win,        \* main: win
  mod,        \* main: m
  prog        \* main: p

loader == <<file, pc, rd, vcount, tcount, icount, ncount, vbuf, ibuf, textures,
            table, vptr, tptr, iptr, err, ub, vmem, imem, tmpmem, handles, obj,
            glObjects, gpu, m, enables, drawn, state, prev>>

dispatch == <<args, op, ai, calls, ret, dpc>>
texloop == <<names, cnt, slots, texture_cnt, over, ipc>>
mainvars == <<mpc, win, mod, prog>>
objsys == <<dispatch, texloop, mainvars>>

vars == <<loader, objsys>>

counts == <<vcount, tcount, icount, ncount>>
buffers == <<vbuf, ibuf, textures, table>>
cursors == <<vptr, tptr, iptr>>
glside == <<obj, glObjects, gpu, enables, drawn>>

Zeros(n) == [x \in 1..n |-> 0]

\* no call of enable or delete is running
DispatchIdle ==
  /\ args = <<>> /\ op = "none" /\ ai = 0 /\ calls = <<>> /\ ret = TRUE
  /\ dpc = "idle"

\* no Model__init__ of models/ is running
TexturesIdle ==
  /\ names = <<>> /\ cnt = 0
  /\ slots = [x \in 1..TextureCapacity |-> "unset"]
  /\ texture_cnt = Unset
  /\ over = FALSE
  /\ ipc = "idle"

\* main has constructed nothing
NoInstances == win = "unset" /\ mod = "unset" /\ prog = "unset"

\* the object system is not run
ObjectsIdle == DispatchIdle /\ TexturesIdle /\ NoInstances /\ mpc = "none"

\* the locals and the instance of a construction by render/model.c that
\* starts
LoaderStart ==
  /\ pc = "new"
  /\ rd = 0
  /\ vcount = 0 /\ tcount = 0 /\ icount = 0 /\ ncount = 0
  /\ vbuf = <<>> /\ ibuf = <<>> /\ textures = <<>> /\ table = <<>>
  /\ vptr = 0 /\ tptr = 0 /\ iptr = 0
  /\ err = "None"
  /\ ub = FALSE
  /\ vmem = "null" /\ imem = "null" /\ tmpmem = "none"
  /\ handles = 0
  /\ obj = [vertices |-> Unset, elements |-> Unset, texture |-> "unset"]
  /\ glObjects = {}
  /\ gpu = <<>>
  /\ m = "pending"
  /\ enables = 0
  /\ drawn = FALSE
  /\ state = "Idle"
  /\ prev = <<>>

Init ==
  /\ file \in Files
  /\ LoaderStart
  /\ ObjectsIdle

\* ------------------------------------------------------- the ways back up
\* fill_vertices, label out: the temporaries are freed (f is not closed)
FillOut == tmpmem' = "freed"

\* load_model had it returned false without free(*vertices)
LoadModelFailLeak == vmem' = vmem /\ imem' = "freed"

\* load_model, fill_vertices returned false: both buffers are freed
LoadModelFail == vmem' = "freed" /\ imem' = "freed"

\* new() had it returned the instance although __init__ returned false
NewFailKeepsObj == m' = "obj" /\ pc' = "done"

\* Model__init__ returns false on a failed load_model, and new() then
\* returns NULL
NewFail == m' = "NULL" /\ pc' = "done"

\* a failed check had it left the loop by break instead of goto out
FailByBreak(kind) ==
  /\ err' = kind
  /\ state' = "Failed"
  /\ pc' = "resolve"
  /\ UNCHANGED <<tmpmem, vmem, imem, m>>

\* a check of fill_vertices failed: message, goto out, and all the way up
Fail(kind) ==
  /\ err' = kind
  /\ state' = "Failed"
  /\ FillOut
  /\ LoadModelFail
  /\ NewFail

\* the loop of fill_vertices goes on to the next line
Continue == UNCHANGED <<err, state, tmpmem, vmem, imem, m, pc>>

\* the process dies on an access outside its memory
Crash ==
  /\ pc' = "crashed"
  /\ UNCHANGED <<err, state, tmpmem, vmem, imem, m>>

\* ------------------------------------------------- first pass: scan_obj_file
\* load_model had it allocated both buffers before the first pass
ScanOpenFailAllocFirst ==
  /\ pc = "new"
  /\ err' = "SourceUnavailable"
  /\ NewFail
  /\ vmem' = "live"
  /\ imem' = "live"
  /\ UNCHANGED <<objsys, prev, file, rd, counts, buffers, cursors, ub, tmpmem, handles,
                 glside, state>>

\* fopen fails: scan_obj_file returns false, load_model returns false before
\* any allocation, Model__init__ returns false, new returns NULL
ScanOpenFail ==
  /\ pc = "new"
  /\ err' = "SourceUnavailable"
  /\ NewFail
  /\ UNCHANGED <<objsys, prev, file, rd, counts, buffers, cursors, ub, vmem, imem, tmpmem,
                 handles, glside, state>>

ScanOpen ==
  /\ pc = "new"
  /\ pc' = "scan"
  /\ handles' = handles + 1
  /\ rd' = 0
  /\ UNCHANGED <<objsys, prev, file, counts, buffers, cursors, err, ub, vmem, imem, tmpmem,
                 glside, m, state>>

\* the first pass had it counted a "v " line only when 3 numbers follow
ScanLineValidating ==
  /\ pc = "scan"
  /\ rd < Len(file)
  /\ LET line == file[rd + 1] IN
       /\ vcount' = IF IsV(line) /\ Len(line.f) >= 3 THEN vcount + 1 ELSE vcount
       /\ tcount' = IF ~IsV(line) /\ IsVt(line) THEN tcount + 1 ELSE tcount
       /\ ncount' = IF ~IsV(line) /\ ~IsVt(line) /\ IsVn(line)
                    THEN ncount + 1 ELSE ncount
       /\ icount' = IF ~IsV(line) /\ ~IsVt(line) /\ ~IsVn(line) /\ IsF(line)
                    THEN icount + 1 ELSE icount
  /\ rd' = rd + 1
  /\ UNCHANGED <<objsys, prev, file, pc, buffers, cursors, err, ub, vmem, imem, tmpmem,
                 handles, glside, m, state>>

\* the first pass had its first test compared one character only, so that
\* "vt " lines are counted as positions
ScanLineShadowed ==
  /\ pc = "scan"
  /\ rd < Len(file)
  /\ LET line == file[rd + 1] IN
       /\ vcount' = IF IsV(line) \/ IsVt(line) THEN vcount + 1 ELSE vcount
       /\ tcount' = tcount
       /\ ncount' = IF ~IsV(line) /\ ~IsVt(line) /\ IsVn(line)
                    THEN ncount + 1 ELSE ncount
       /\ icount' = IF ~IsV(line) /\ ~IsVt(line) /\ ~IsVn(line) /\ IsF(line)
                    THEN icount + 1 ELSE icount
  /\ rd' = rd + 1
  /\ UNCHANGED <<objsys, prev, file, pc, buffers, cursors, err, ub, vmem, imem, tmpmem,
                 handles, glside, m, state>>

\* one getline of the first pass and the if / else-if chain on its marker
ScanLine ==
  /\ pc = "scan"
  /\ rd < Len(file)
  /\ LET line == file[rd + 1] IN
       /\ vcount' = IF IsV(line) THEN vcount + 1 ELSE vcount
       /\ tcount' = IF ~IsV(line) /\ IsVt(line) THEN tcount + 1 ELSE tcount
       /\ ncount' = IF ~IsV(line) /\ ~IsVt(line) /\ IsVn(line)
                    THEN ncount + 1 ELSE ncount
       /\ icount' = IF ~IsV(line) /\ ~IsVt(line) /\ ~IsVn(line) /\ IsF(line)
                    THEN icount + 1 ELSE icount
  /\ rd' = rd + 1
  /\ UNCHANGED <<objsys, prev, file, pc, buffers, cursors, err, ub, vmem, imem, tmpmem,
                 handles, glside, m, state>>

\* getline returns -1: fclose, return true; load_model allocates both
\* buffers and calls fill_vertices, which allocates its temporaries
ScanEOF ==
  /\ pc = "scan"
  /\ rd = Len(file)
  /\ handles' = handles - 1
  /\ vbuf' = Zeros(vcount * 8)
  /\ ibuf' = Zeros(icount * 3)
  /\ vmem' = "live"
  /\ imem' = "live"
  /\ textures' = Zeros(tcount * 2)
  /\ table' = Zeros(vcount)
  /\ tmpmem' = "live"
  /\ vptr' = 0 /\ tptr' = 0 /\ iptr' = 0
  /\ state' = "Scanning"
  /\ pc' = "fillopen"
  /\ rd' = 0
  /\ UNCHANGED <<objsys, prev, file, counts, err, ub, glside, m>>

\* ------------------------------------------------ second pass: fill_vertices
FillOpenFail ==
  /\ pc = "fillopen"
  /\ Fail("SourceUnavailable")
  /\ UNCHANGED <<objsys, prev, file, rd, counts, buffers, cursors, ub, handles, glside>>

FillOpen ==
  /\ pc = "fillopen"
  /\ pc' = "fill"
  /\ handles' = handles + 1
  /\ rd' = 0
  /\ UNCHANGED <<objsys, prev, file, counts, buffers, cursors, err, ub, vmem, imem, tmpmem,
                 glside, m, state>>

\* the test on a "v " line had it accepted two numbers
BadPositionLoose(scanned) == scanned < 2

\* the test made on the count of a "v " line
BadPosition(scanned) == scanned # 3

\* the test made on the count of a "vt " line
BadTexCoord(scanned) == scanned # 2

\* the test made on the count of an "f " line
BadFace(scanned) == scanned # 9

\* a "v " line: sscanf stores what it converts at vptr, vptr + 1, vptr + 2
FillPosition ==
  /\ pc = "fill"
  /\ rd < Len(file)
  /\ IsV(file[rd + 1])
  /\ rd' = rd + 1
  /\ LET line == file[rd + 1]
         scanned == ScanFloats(line, 3)
     IN /\ vbuf' = [x \in DOMAIN vbuf |->
                      IF x - vptr * 8 \in 1..scanned
                      THEN line.f[x - vptr * 8] ELSE vbuf[x]]
        /\ IF BadPosition(scanned)
           THEN Fail("MalformedPositionLine") /\ vptr' = vptr
           ELSE Continue /\ vptr' = vptr + 1
  /\ UNCHANGED <<objsys, prev, file, counts, ibuf, textures, table, tptr, iptr, ub, handles,
                 glside>>

\* a "vt " line: sscanf stores what it converts at tptr, tptr + 1
FillTexCoord ==
  /\ pc = "fill"
  /\ rd < Len(file)
  /\ IsVt(file[rd + 1])
  /\ rd' = rd + 1
  /\ LET line == file[rd + 1]
         scanned == ScanFloats(line, 2)
     IN /\ textures' = [x \in DOMAIN textures |->
                          IF x - tptr * 2 \in 1..scanned
                          THEN line.f[x - tptr * 2] ELSE textures[x]]
        /\ IF BadTexCoord(scanned)
           THEN Fail("MalformedTexCoordLine") /\ tptr' = tptr
           ELSE Continue /\ tptr' = tptr + 1
  /\ UNCHANGED <<objsys, prev, file, counts, vbuf, ibuf, table, vptr, iptr, ub, handles,
                 glside>>

\* one round of the loop of lines 183-192 on corner position index ij and
\* texcoord index tj: the outcomes.  table[ij - 1] lies in the block iff
\* ij - 1 < vlen as unsigned; outside of it the read delivers anything, the
\* write lands in foreign memory, or the process dies.
CornerOutcomes(tab, ij, tj) ==
  IF ULt(ij - 1, vcount)
  THEN IF ConflictTest(tab[ij], tj - 1)
       THEN {[tab |-> tab, res |-> "conflict", ub |-> FALSE]}
       ELSE {[tab |-> [tab EXCEPT ![ij] = tj - 1], res |-> "ok", ub |-> FALSE]}
  ELSE {[tab |-> tab, res |-> "crash", ub |-> TRUE]} \cup
       {[tab |-> tab,
         res |-> IF ConflictTest(g, tj - 1) THEN "conflict" ELSE "ok",
         ub |-> TRUE] : g \in Garbage}

\* the loop of lines 183-192 from corner j on: it leaves at the first
\* conflict
RECURSIVE FaceLoop(_, _, _, _, _)
FaceLoop(tab, u, j, is, ts) ==
  IF j > 3 THEN {[tab |-> tab, res |-> "ok", ub |-> u]}
  ELSE UNION { IF o.res = "ok"
               THEN FaceLoop(o.tab, u \/ o.ub, j + 1, is, ts)
               ELSE {[tab |-> o.tab, res |-> o.res, ub |-> u \/ o.ub]}
               : o \in CornerOutcomes(tab, is[j], ts[j]) }

\* an "f " line: sscanf stores position indices straight into the index
\* buffer at i, i + 1, i + 2 and texcoord indices into t[]
FillFace ==
  /\ pc = "fill"
  /\ rd < Len(file)
  /\ IsF(file[rd + 1])
  /\ rd' = rd + 1
  /\ LET line == file[rd + 1]
         scanned == ScanFace(line)
         is == [j \in 1..3 |-> line.c[j][1]]
         ts == [j \in 1..3 |-> line.c[j][2]]
     IN /\ ibuf' = [x \in DOMAIN ibuf |->
                      IF x - iptr * 3 \in 1..3 /\ PosStored(scanned, x - iptr * 3)
                      THEN line.c[x - iptr * 3][1] ELSE ibuf[x]]
        /\ IF BadFace(scanned)
           THEN Fail("MalformedFaceLine") /\ UNCHANGED <<table, iptr, ub>>
           ELSE IF ZeroIndexTest(is, ts)
           THEN Fail("ZeroIndex") /\ UNCHANGED <<table, iptr, ub>>
           ELSE \E o \in FaceLoop(table, ub, 1, is, ts) :
                  /\ table' = o.tab
                  /\ ub' = o.ub
                  /\ CASE o.res = "ok" -> Continue /\ iptr' = iptr + 1
                       [] o.res = "conflict" ->
                            Fail("TexCoordConflict") /\ iptr' = iptr
                       [] o.res = "crash" -> Crash /\ iptr' = iptr
  /\ UNCHANGED <<objsys, prev, file, counts, vbuf, textures, vptr, tptr, handles, glside>>

\* any other line, "vn " included: none of the three tests matches
FillSkip ==
  /\ pc = "fill"
  /\ rd < Len(file)
  /\ ~IsV(file[rd + 1]) /\ ~IsVt(file[rd + 1]) /\ ~IsF(file[rd + 1])
  /\ rd' = rd + 1
  /\ UNCHANGED <<objsys, prev, file, pc, counts, buffers, cursors, err, ub, vmem, imem,
                 tmpmem, handles, glside, m, state>>

\* getline returns -1 in the second pass
FillEOF ==
  /\ pc = "fill"
  /\ rd = Len(file)
  /\ pc' = "resolve"
  /\ state' = "Resolving"
  /\ UNCHANGED <<objsys, prev, file, rd, counts, buffers, cursors, err, ub, vmem, imem,
                 tmpmem, handles, glside, m>>

\* the offset had it not been scaled by the record width
TexOffsetUnscaled(mm, o) == table[mm + 1] + (o - 5)

\* lines 205-206: textures[table[mm] * 2] feeds offset 6 of record mm and
\* textures[table[mm] * 2 + 1] offset 7 (o is 6 or 7; sequences count from 1)
TexOffset(mm, o) == table[mm + 1] * 2 + (o - 5)

\* textures[table[mm] * 2] lies in the block iff 0 <= table[mm] < tlen
TexInBounds(mm) == 0 <= table[mm + 1] /\ table[mm + 1] < tcount

\* lines 203-207: texcoords are copied to offsets 6 and 7 of each record; a
\* read outside textures delivers anything or kills the process.  Then ret
\* is true, the temporaries are freed and fill_vertices returns.
Backfill ==
  /\ pc = "resolve"
  /\ \/ /\ \E g \in [1..(vcount * 2) -> Garbage] :
             vbuf' = [x \in DOMAIN vbuf |->
                        LET mm == (x - 1) \div 8
                            o == (x - 1) % 8
                        IN IF o < 6 THEN vbuf[x]
                           ELSE IF TexInBounds(mm)
                                THEN textures[TexOffset(mm, o)]
                                ELSE g[mm * 2 + (o - 5)]]
        /\ ub' = (ub \/ \E mm \in 0..(vcount - 1) : ~TexInBounds(mm))
        /\ FillOut
        /\ pc' = "filled"
        /\ UNCHANGED <<err, state, vmem, imem, m>>
     \/ /\ \E mm \in 0..(vcount - 1) : ~TexInBounds(mm)
        /\ ub' = TRUE
        /\ vbuf' = vbuf
        /\ Crash
  /\ UNCHANGED <<objsys, prev, file, rd, counts, ibuf, textures, table, cursors, handles,
                 glside>>

\* ------------------------------------------------ load_model, Model__init__
\* the loop of lines 239-240 had it not been written
NoDecrement(e) == e

\* line 240: --(*indices)[i]
Decrement(e) == e - 1

\* line 243 had it stored the number of faces
ElementCountFaces(ic) == ic

\* line 243: obj->elements = icount * 3
ElementCount(ic) == ic * 3

\* load_model after a successful fill_vertices: every index is decremented,
\* the counts are stored in the instance
FinishLoad ==
  /\ pc = "filled"
  /\ ibuf' = [x \in DOMAIN ibuf |-> Decrement(ibuf[x])]
  /\ obj' = [obj EXCEPT !.vertices = vcount, !.elements = ElementCount(icount)]
  /\ state' = "Done"
  /\ pc' = "loaded"
  /\ UNCHANGED <<objsys, prev, file, rd, counts, vbuf, textures, table, cursors, err, ub,
                 vmem, imem, tmpmem, handles, glObjects, gpu, enables, drawn,
                 m>>

\* Model__init__ after a successful load_model: VAO, VBO and EBO are
\* generated and filled, the texture is constructed (it may fail), both
\* buffers are freed; new() returns the instance
Upload ==
  /\ pc = "loaded"
  /\ glObjects' = {"vao", "vbo", "ebo"}
  /\ gpu' = <<[target |-> "array", data |-> vbuf],
              [target |-> "element", data |-> ibuf]>>
  /\ \E texOK \in BOOLEAN :
       obj' = [obj EXCEPT !.texture = IF texOK THEN "tex" ELSE "NULL"]
  /\ vmem' = "freed"
  /\ imem' = "freed"
  /\ m' = "obj"
  /\ pc' = "done"
  /\ UNCHANGED <<objsys, prev, file, rd, counts, buffers, cursors, err, ub, tmpmem, handles,
                 enables, drawn, state>>

\* enable(m, NULL): the loop ends at once on a NULL first argument,
\* otherwise Model__enable__ binds and draws
Enable ==
  /\ pc = "done"
  /\ enables < MaxEnable
  /\ enables' = enables + 1
  /\ drawn' = (drawn \/ m = "obj")
  /\ UNCHANGED <<objsys, prev, file, pc, rd, counts, buffers, cursors, err, ub, vmem, imem,
                 tmpmem, handles, obj, glObjects, gpu, m, state>>

Next ==
  \/ ScanOpenFail
  \/ ScanOpen
  \/ ScanLine
  \/ ScanEOF
  \/ FillOpenFail
  \/ FillOpen
  \/ FillPosition
  \/ FillTexCoord
  \/ FillFace
  \/ FillSkip
  \/ FillEOF
  \/ Backfill
  \/ FinishLoad
  \/ Upload
  \/ Enable

Spec == Init /\ [][Next]_vars

\* ------------------------------------------- the same source, loaded again
\* what a construction gave: the value new() returned, the error printed,
\* the counts of both passes and of the instance, the buffers handed to GL
Outcome ==
  [m |-> m, err |-> err, counts |-> counts, vertices |-> obj.vertices,
   elements |-> obj.elements, gpu |-> gpu]

\* a further construction starts: every local of load_model, scan_obj_file
\* and fill_vertices starts afresh, the instance is a new one; the FILE
\* handles the process holds stay open
Restart ==
  /\ pc = "done"
  /\ Len(prev) < MaxLoads - 1
  /\ prev' = Append(prev, Outcome)
  /\ pc' = "new"
  /\ rd' = 0
  /\ vcount' = 0 /\ tcount' = 0 /\ icount' = 0 /\ ncount' = 0
  /\ vbuf' = <<>> /\ ibuf' = <<>> /\ textures' = <<>> /\ table' = <<>>
  /\ vptr' = 0 /\ tptr' = 0 /\ iptr' = 0
  /\ err' = "None"
  /\ ub' = FALSE
  /\ vmem' = "null" /\ imem' = "null" /\ tmpmem' = "none"
  /\ obj' = [vertices |-> Unset, elements |-> Unset, texture |-> "unset"]
  /\ glObjects' = {}
  /\ gpu' = <<>>
  /\ m' = "pending"
  /\ enables' = 0
  /\ drawn' = FALSE
  /\ state' = "Idle"
  /\ UNCHANGED <<objsys, handles>>

\* new(Model, ...) is called once more on the same path when the call
\* before has returned
Reload == Restart /\ UNCHANGED file

InitTwice == Init /\ file \in TwiceFiles

NextTwice == Next \/ Reload

SpecTwice == InitTwice /\ [][NextTwice]_vars

\* ------------------------------------- the same source in another order
\* f with lines a and b exchanged
SwapLines(f, a, b) ==
  [k \in DOMAIN f |-> IF k = a THEN f[b] ELSE IF k = b THEN f[a] ELSE f[k]]

\* f with corners a and b of face line k exchanged
SwapCorners(f, k, a, b) ==
  [f EXCEPT ![k].c = [j \in DOMAIN f[k].c |->
                       IF j = a THEN f[k].c[b]
                       ELSE IF j = b THEN f[k].c[a] ELSE f[k].c[j]]]

\* a source of the same lines with two face lines exchanged is constructed
\* when the call before has returned
Reorder ==
  /\ Restart
  /\ \E a \in DOMAIN file, b \in DOMAIN file :
       /\ a < b
       /\ file[a].k = "f" /\ file[b].k = "f"
       /\ file' = SwapLines(file, a, b)
       /\ file' # file

\* likewise with two corners of one face line exchanged
ReorderCorners ==
  /\ Restart
  /\ \E k \in DOMAIN file, a \in 1..3, b \in 1..3 :
       /\ a < b
       /\ file[k].k = "f" /\ b <= Len(file[k].c)
       /\ file' = SwapCorners(file, k, a, b)
       /\ file' # file

\* the sources that are loaded in two orders
ReorderFiles ==
  TwiceFiles \cup
  {Prelude(MaxIdx, MaxIdx) \o <<f1, f2>> : f1 \in PairFaces, f2 \in PairFaces}

InitReordered == Init /\ file \in ReorderFiles

NextReordered == Next \/ Reorder \/ ReorderCorners

SpecReordered == InitReordered /\ [][NextReordered]_vars

\* ------------------------------------------ object.c: enable and delete
\* the classes of the repository by their handler tables (window.c 241-249,
\* program.c 285-293, assimp_model.c, texture.c), and a class whose
\* __enable__ returns false
Kinds == {"window", "program", "model", "texture", "failing"}

HasEnable(kind) == kind \in {"window", "program", "model", "failing"}
EnableRet(kind) == kind # "failing"
HasDel(kind) == kind \in {"window", "failing"}

\* the argument lists: instances, and NULL where a construction has failed
ArgLists == UNION {[1..n -> Kinds \cup {"NULL"}] : n \in 0..MaxArgs}

\* the k-th argument; the list ends with NULL
ArgAt(k) == IF k <= Len(args) THEN args[k] ELSE "NULL"

\* delete had it tested the handler enable tests
HandlerEnableOnly(o, kind) == HasEnable(kind)

\* object.c 97 and 219: p && *obj && (*obj)->__del__, or ->__enable__
Handler(o, kind) == IF o = "delete" THEN HasDel(kind) ELSE HasEnable(kind)

\* line 220 had it been ret = ...
AccumulateLast(r, h) == h

\* object.c 220: ret &= (*obj)->__enable__(p)
Accumulate(r, h) == r /\ h

\* va_start and p = self: the loop of enable or delete is entered
StartCall(o, as) ==
  /\ op' = o
  /\ args' = as
  /\ ai' = 0
  /\ calls' = <<>>
  /\ ret' = TRUE
  /\ dpc' = "loop"

\* one round of the loop on an instance that has the handler
DispatchInvoke ==
  /\ dpc = "loop"
  /\ ArgAt(ai + 1) # "NULL"
  /\ Handler(op, ArgAt(ai + 1))
  /\ calls' = Append(calls, ai + 1)
  /\ ret' = IF op = "enable"
            THEN Accumulate(ret, EnableRet(ArgAt(ai + 1))) ELSE ret
  /\ ai' = ai + 1
  /\ UNCHANGED <<loader, args, op, dpc, texloop, mainvars>>

\* one round of the loop on an instance that has not
DispatchSkip ==
  /\ dpc = "loop"
  /\ ArgAt(ai + 1) # "NULL"
  /\ ~Handler(op, ArgAt(ai + 1))
  /\ ai' = ai + 1
  /\ UNCHANGED <<loader, args, op, calls, ret, dpc, texloop, mainvars>>

\* p is NULL: the loop ends, va_end, return
DispatchEnd ==
  /\ dpc = "loop"
  /\ ArgAt(ai + 1) = "NULL"
  /\ dpc' = "returned"
  /\ UNCHANGED <<loader, args, op, ai, calls, ret, texloop, mainvars>>

\* ------------------------------- models/: the texture loop of Model__init__
\* the name lists: every file loadable, or one that is not
NameLists ==
  {[k \in 1..n |-> "good"] : n \in 0..MaxNames} \cup
  {[k \in 1..n |-> IF k = b THEN "bad" ELSE "good"] :
     n \in 1..MaxNames, b \in 1..MaxNames}

\* new(Texture, p): the instance, or NULL when stbi_load fails
NewTexture(name) == IF name = "good" THEN "tex" ELSE "NULL"

\* Model__init__ has loaded the mesh and enters the loop with cnt = 0
StartTextures(ns) ==
  /\ names' = ns
  /\ cnt' = 0
  /\ slots' = [x \in 1..TextureCapacity |-> "unset"]
  /\ texture_cnt' = Unset
  /\ ipc' = "loop"
  /\ over' = over

\* assimp_model.c 248-251: p is a name, obj->texture[cnt++] = new(Texture, p);
\* past the last slot the store lands outside the array, or the process dies
TextureStep ==
  /\ ipc = "loop"
  /\ cnt < Len(names)
  /\ \/ /\ cnt < TextureCapacity
        /\ slots' = [slots EXCEPT ![cnt + 1] = NewTexture(names[cnt + 1])]
        /\ cnt' = cnt + 1
        /\ UNCHANGED <<over, ipc, mpc>>
     \/ /\ cnt >= TextureCapacity
        /\ over' = TRUE
        /\ cnt' = cnt + 1
        /\ UNCHANGED <<slots, ipc, mpc>>
     \/ /\ cnt >= TextureCapacity
        /\ over' = TRUE
        /\ ipc' = "crashed"
        /\ mpc' = IF mpc = "init" THEN "crashed" ELSE mpc
        /\ UNCHANGED <<slots, cnt>>
  /\ UNCHANGED <<loader, dispatch, names, texture_cnt, win, mod, prog>>

\* assimp_model.c 249-255: p is NULL, obj->texture_cnt = cnt, return true;
\* in main, new() returns the instance
TextureEnd ==
  /\ ipc = "loop"
  /\ cnt = Len(names)
  /\ texture_cnt' = cnt
  /\ ipc' = "returned"
  /\ IF mpc = "init"
     THEN mod' = "model" /\ mpc' = "newprogram"
     ELSE UNCHANGED <<mod, mpc>>
  /\ UNCHANGED <<loader, dispatch, names, cnt, slots, over, win, prog>>

\* ---------------------------------------------------------- tawy.c: main
\* line 18: win = new(Window, ...)
MainNewWindow ==
  /\ mpc = "start"
  /\ win' \in {"window", "NULL"}
  /\ mpc' = "newmodel"
  /\ UNCHANGED <<loader, dispatch, texloop, mod, prog>>

\* line 19: m = new(AssimpModel, "cube.obj", "container.jpg",
\* "awesomeface.png", NULL): load_model fails and new() returns NULL, or the
\* texture loop is entered
MainNewModel ==
  /\ mpc = "newmodel"
  /\ \/ /\ mod' = "NULL"
        /\ mpc' = "newprogram"
        /\ UNCHANGED texloop
     \/ /\ \E ns \in [1..2 -> {"good", "bad"}] : StartTextures(ns)
        /\ mpc' = "init"
        /\ mod' = mod
  /\ UNCHANGED <<loader, dispatch, win, prog>>

\* lines 21-25: p = new(Program, ...); if (!p) delete(m, win, NULL)
MainNewProgram ==
  /\ mpc = "newprogram"
  /\ \/ /\ prog' = "NULL"
        /\ StartCall("delete", <<mod, win>>)
        /\ mpc' = "faildelete"
     \/ /\ prog' = "program"
        /\ mpc' = "title"
        /\ UNCHANGED dispatch
  /\ UNCHANGED <<loader, texloop, win, mod>>

\* line 26: return 1
MainReturn1 ==
  /\ mpc = "faildelete"
  /\ dpc = "returned"
  /\ mpc' = "ret1"
  /\ UNCHANGED <<loader, dispatch, texloop, win, mod, prog>>

\* lines 29-33: printf of win->title (win may be NULL: the program dies or
\* prints anything), then enable(p, NULL)
MainTitle ==
  /\ mpc = "title"
  /\ \/ /\ StartCall("enable", <<prog>>)
        /\ mpc' = "enabled"
     \/ /\ win = "NULL"
        /\ mpc' = "crashed"
        /\ UNCHANGED dispatch
  /\ UNCHANGED <<loader, texloop, win, mod, prog>>

\* lines 36-40: the loop on m->texture_cnt of set(p, ...) (m may be NULL: the
\* program dies or loops on anything)
MainUniforms ==
  /\ mpc = "enabled"
  /\ dpc = "returned"
  /\ \/ mpc' = "frame"
     \/ mod = "NULL" /\ mpc' = "crashed"
  /\ UNCHANGED <<loader, dispatch, texloop, win, mod, prog>>

\* lines 43-46: should_close(win) is false (always, when win is NULL):
\* prepare(win), enable(p, NULL)
MainFrame ==
  /\ mpc = "frame"
  /\ StartCall("enable", <<prog>>)
  /\ mpc' = "frameprogram"
  /\ UNCHANGED <<loader, texloop, win, mod, prog>>

\* lines 48-64: the uniforms are set, enable(m, win, NULL)
MainDraw ==
  /\ mpc = "frameprogram"
  /\ dpc = "returned"
  /\ StartCall("enable", <<mod, win>>)
  /\ mpc' = "framedraw"
  /\ UNCHANGED <<loader, texloop, win, mod, prog>>

\* line 67: the body of the loop ends
MainFrameEnd ==
  /\ mpc = "framedraw"
  /\ dpc = "returned"
  /\ mpc' = "frame"
  /\ UNCHANGED <<loader, dispatch, texloop, win, mod, prog>>

\* lines 43 and 69: should_close(win) is true, delete(m, p, win, NULL)
MainClose ==
  /\ mpc = "frame"
  /\ win # "NULL"
  /\ StartCall("delete", <<mod, prog, win>>)
  /\ mpc' = "enddelete"
  /\ UNCHANGED <<loader, texloop, win, mod, prog>>

\* line 70: return 0
MainReturn0 ==
  /\ mpc = "enddelete"
  /\ dpc = "returned"
  /\ mpc' = "ret0"
  /\ UNCHANGED <<loader, dispatch, texloop, win, mod, prog>>

\* the object system starts with main, with a call of enable or delete on
\* some instances, or with a Model__init__ on some texture names
InitObjects ==
  /\ file = <<>>
  /\ LoaderStart
  /\ NoInstances
  /\ \/ /\ mpc = "start"
        /\ DispatchIdle /\ TexturesIdle
     \/ /\ mpc = "call"
        /\ args \in ArgLists /\ op \in {"enable", "delete"}
        /\ ai = 0 /\ calls = <<>> /\ ret = TRUE /\ dpc = "loop"
        /\ TexturesIdle
     \/ /\ mpc = "construct"
        /\ DispatchIdle
        /\ names \in NameLists /\ cnt = 0
        /\ slots = [x \in 1..TextureCapacity |-> "unset"]
        /\ texture_cnt = Unset /\ over = FALSE /\ ipc = "loop"

NextObjects ==
  \/ DispatchInvoke
  \/ DispatchSkip
  \/ DispatchEnd
  \/ TextureStep
  \/ TextureEnd
  \/ MainNewWindow
  \/ MainNewModel
  \/ MainNewProgram
  \/ MainReturn1
  \/ MainTitle
  \/ MainUniforms
  \/ MainFrame
  \/ MainDraw
  \/ MainFrameEnd
  \/ MainClose
  \/ MainReturn0

SpecObjects == InitObjects /\ [][NextObjects]_vars

\* ------------------------------------------------------------- typing
TypeOK ==
  /\ pc \in {"new", "scan", "fillopen", "fill", "resolve", "filled", "loaded",
             "done", "crashed"}
  /\ m \in {"pending", "obj", "NULL"}
  /\ state \in {"Idle", "Scanning", "Resolving", "Done", "Failed"}
  /\ err \in {"None", "SourceUnavailable", "MalformedPositionLine",
              "MalformedTexCoordLine", "MalformedFaceLine", "ZeroIndex",
              "TexCoordConflict"}
  /\ vmem \in {"null", "live", "freed"}
  /\ imem \in {"null", "live", "freed"}

\* --------------------------------------------- what the properties speak of
Lines == 1..Len(file)
NumV == Cardinality({k \in Lines : file[k].k = "v"})
NumVt == Cardinality({k \in Lines : file[k].k = "vt"})

\* the second pass has read line rd of the source
SecondPassRead ==
  /\ pc \in {"fill", "resolve", "filled", "loaded", "done", "crashed"}
  /\ rd >= 1

\* the load has succeeded: load_model returned true
Loaded == pc = "loaded" \/ m = "obj"

\* the corners of a face line that exist, three at most
CornersOf(line) == 1..Min(3, Len(line.c))

\* a face line of exactly three corners of exactly three sub-fields
ExactShape(line) ==
  /\ Len(line.c) = 3
  /\ \A j \in 1..3 : Len(line.c[j]) = 3

\* a face line that carries a position or texcoord sub-field below lo + 1
IndexBelow(line, lo) ==
  /\ line.k = "f"
  /\ \E j \in CornersOf(line) :
       \E s \in 1..Min(2, Len(line.c[j])) : line.c[j][s] <= lo

\* the malformed-line error a line calls for, "None" if it calls for none
MalformedKind(line) ==
  CASE line.k = "v" /\ Len(line.f) < 3 -> "MalformedPositionLine"
    [] line.k = "vt" /\ Len(line.f) < 2 -> "MalformedTexCoordLine"
    [] line.k = "f" /\ ScanFace(line) < 9 -> "MalformedFaceLine"
    [] OTHER -> "None"

\* a face line with nine sub-fields, no index below 1
PlainFace(line) ==
  /\ line.k = "f"
  /\ MalformedKind(line) = "None"
  /\ ~IndexBelow(line, 0)

\* line k names a position with a texcoord index that differs from the one
\* an earlier corner (of an earlier face, or earlier in the same face) names
\* for that position
ConflictAt(k) ==
  /\ PlainFace(file[k])
  /\ \E j \in 1..3 : \E k2 \in 1..k : \E j2 \in 1..3 :
       /\ k2 < k \/ j2 < j
       /\ PlainFace(file[k2])
       /\ file[k2].c[j2][1] = file[k].c[j][1]
       /\ file[k2].c[j2][2] # file[k].c[j][2]

\* the error kind line k calls for by I1, I2, I3 and the malformed-line
\* rules, "None" if the line is valid
InvalidKind(k) ==
  CASE MalformedKind(file[k]) # "None" -> MalformedKind(file[k])
    [] file[k].k = "f" /\ ~ExactShape(file[k]) -> "MalformedFaceLine"
    [] IndexBelow(file[k], 0) -> "ZeroIndex"
    [] ConflictAt(k) -> "TexCoordConflict"
    [] OTHER -> "None"

\* every face names positions and texcoords that the source declares, so
\* that no access leaves its block
InRange ==
  \A k \in Lines : file[k].k = "f" =>
    \A j \in CornersOf(file[k]) :
      /\ Len(file[k].c[j]) >= 2
      /\ file[k].c[j][1] \in 1..NumV
      /\ file[k].c[j][2] \in 1..NumVt

\* no line of the source is malformed or carries an index below 1
WellFormed ==
  \A k \in Lines :
    /\ MalformedKind(file[k]) = "None"
    /\ file[k].k = "f" => ExactShape(file[k]) /\ ~IndexBelow(file[k], 0)

\* ------------------------------------------------------------------ claims
\* C1 (as claimed): a well-formed, in-range source in which two face
\* corners name the same position with different texcoord indices never
\* loads, and once the second pass has run to its end the error is the
\* texcoord conflict, also when the first reference names texcoord 1.
C1_ConflictAlwaysRejected ==
  (WellFormed /\ InRange /\ \E k \in Lines : ConflictAt(k)) =>
    /\ ~Loaded
    /\ state \notin {"Resolving", "Done"}
    /\ (pc = "done" /\ err # "SourceUnavailable") => err = "TexCoordConflict"

\* C2 (as claimed, for sources whose face indices are all at least 1):
\* after a successful load every entry of the index buffer is, as an
\* unsigned int, below the vertex count.
C2_IndexRange ==
  (Loaded /\ WellFormed) =>
    \A x \in DOMAIN ibuf : ULt(ibuf[x], obj.vertices)

\* C3: a source with a face line that has a 0 in a position or texcoord
\* sub-field of one of its three corners never loads: fill_vertices never
\* leaves its scan loop normally, nothing reaches the GPU, and when new()
\* has returned it returned NULL with both buffers released.
C3_ZeroIndexRejected ==
  (\E k \in Lines : IndexBelow(file[k], 0) /\ ~IndexBelow(file[k], -1)) =>
    /\ ~Loaded
    /\ state \notin {"Resolving", "Done"}
    /\ gpu = <<>>
    /\ pc = "done" => m = "NULL" /\ vmem # "live" /\ imem # "live"

C3_Witness ==
  /\ pc = "done"
  /\ err = "ZeroIndex"
  /\ rd >= 2
  /\ file[rd].c[3][2] = 0
  /\ vmem = "freed"

\* C4: whenever the second pass has read a "v " line with fewer than 3
\* numbers, a "vt " line with fewer than 2 or an "f " line with fewer than 9
\* sub-fields, the load has failed there with the error of that line, at
\* whatever place of the file the line stands; and a source that holds such
\* a line never loads.
C4_MalformedLineRejected ==
  /\ (SecondPassRead /\ MalformedKind(file[rd]) # "None") =>
       /\ state = "Failed"
       /\ err = MalformedKind(file[rd])
       /\ m = "NULL"
  /\ (\E k \in Lines : MalformedKind(file[k]) # "None") =>
       ~Loaded /\ state \notin {"Resolving", "Done"}

C4_Witness ==
  /\ pc = "done"
  /\ err = "MalformedPositionLine"
  /\ rd = Len(file)
  /\ rd >= 3
  /\ file[rd - 1].k = "f"

\* C5 (as claimed, on runs without an out-of-bounds access): a load
\* succeeds only if every face line has exactly 3 corners of exactly 3
\* sub-fields.
C5_ExactFaceShape ==
  (Loaded /\ ~ub) => \A k \in Lines : file[k].k = "f" => ExactShape(file[k])

\* every face names positions that the source declares, so that no access
\* to the table leaves its block
PositionsInRange ==
  \A k \in Lines : file[k].k = "f" =>
    \A j \in CornersOf(file[k]) : file[k].c[j][1] \in 1..NumV

\* C6 (as claimed, for sources whose position indices all name a declared
\* position): a load succeeds only if every position and texcoord index of
\* every face corner is at least 1.
C6_IndicesAtLeastOne ==
  (Loaded /\ PositionsInRange) => \A k \in Lines : ~IndexBelow(file[k], 0)

\* C7: when the source cannot be opened for the first pass, new() returns
\* NULL with no buffer and no temporary ever allocated, no second pass
\* started, no count taken and the counts of the instance left unset.
C7_SourceUnavailable ==
  (err = "SourceUnavailable" /\ state = "Idle") =>
    /\ pc = "done" /\ m = "NULL"
    /\ vmem = "null" /\ imem = "null" /\ tmpmem = "none"
    /\ vbuf = <<>> /\ ibuf = <<>>
    /\ rd = 0 /\ handles = 0
    /\ vcount = 0 /\ icount = 0
    /\ obj.vertices = Unset /\ obj.elements = Unset

C7_Witness ==
  /\ err = "SourceUnavailable"
  /\ state = "Idle"
  /\ Len(file) >= 1
  /\ enables = MaxEnable

\* C8: when a pass has failed, neither buffer is left allocated (the second
\* pass failing, both have been freed), the counts of the instance are
\* unset and nothing was handed to glBufferData.
C8_NoPartialMesh ==
  /\ m = "NULL" =>
       /\ vmem # "live" /\ imem # "live"
       /\ obj.vertices = Unset /\ obj.elements = Unset
       /\ gpu = <<>>
  /\ state = "Failed" => vmem = "freed" /\ imem = "freed" /\ m = "NULL"

C8_Witness ==
  /\ state = "Failed"
  /\ err = "TexCoordConflict"
  /\ vptr >= 1
  /\ iptr >= 1
  /\ vmem = "freed"

\* C9: a failed load, whatever the error, ends with new() returning NULL,
\* no GL name generated, nothing uploaded, and enable() never drawing it.
C9_ConstructionFailure ==
  /\ err # "None" => pc = "done" /\ m = "NULL"
  /\ m = "NULL" => glObjects = {} /\ gpu = <<>> /\ ~drawn
  /\ drawn => m = "obj"

C9_Witness ==
  /\ m = "NULL"
  /\ err = "ZeroIndex"
  /\ enables = MaxEnable
  /\ ~drawn

\* C10 (as claimed, on runs without an out-of-bounds access): once new()
\* has returned for a source with an invalid line that both passes could
\* open, the assembler has failed at the first invalid line of the file and
\* with the error kind of that line.
C10_FirstInvalidLineWins ==
  (/\ pc = "done"
   /\ ~ub
   /\ err # "SourceUnavailable"
   /\ \E k \in Lines : InvalidKind(k) # "None") =>
    /\ state = "Failed"
    /\ InvalidKind(rd) # "None"
    /\ \A k \in 1..(rd - 1) : InvalidKind(k) = "None"
    /\ err = InvalidKind(rd)

\* ------------------------------------------- counts, ranks and references
NumVn == Cardinality({k \in Lines : file[k].k = "vn"})
NumF == Cardinality({k \in Lines : file[k].k = "f"})

\* the lines among the first n that start with marker
CountIn(marker, n) == Cardinality({k \in 1..n : file[k].k = marker})

\* the line that is the n-th of those starting with marker
NthOf(marker, n) ==
  CHOOSE k \in Lines : file[k].k = marker /\ CountIn(marker, k) = n

\* the corners, as <<line, corner>>, that name position p
Refs(p) ==
  {r \in Lines \X (1..3) :
     /\ file[r[1]].k = "f"
     /\ r[2] <= Len(file[r[1]].c)
     /\ file[r[1]].c[r[2]][1] = p}

\* C11: after a successful load the vertex count of the instance is the
\* number of "v " lines, as counted by the first pass, its element count is
\* 3 times the number of "f " lines, the vertex buffer holds 8 floats per
\* position and the index buffer 3 entries per face; the same sizes reach
\* the GPU.
C11_CountConsistency ==
  Loaded =>
    /\ obj.vertices = vcount /\ vcount = NumV
    /\ obj.elements = 3 * icount /\ icount = NumF
    /\ Len(vbuf) = 8 * NumV
    /\ Len(ibuf) = 3 * NumF
    /\ gpu # <<>> =>
         Len(gpu[1].data) = 8 * obj.vertices /\ Len(gpu[2].data) = obj.elements

C11_Witness ==
  /\ pc = "loaded"
  /\ WellFormed /\ InRange
  /\ file = OneTriangle
  /\ obj.vertices = 3
  /\ obj.elements = 3
  /\ Len(vbuf) = 24

\* C12: while the first pass runs, each count is the number of lines read
\* so far that start with its marker, whatever follows the marker; each line
\* adds to one count at most; once the pass is over the counts are those of
\* the whole file.
C12_ScannerCounts ==
  /\ pc = "scan" =>
       /\ vcount = CountIn("v", rd) /\ tcount = CountIn("vt", rd)
       /\ ncount = CountIn("vn", rd) /\ icount = CountIn("f", rd)
       /\ vcount + tcount + ncount + icount <= rd
  /\ state # "Idle" =>
       /\ vcount = NumV /\ tcount = NumVt /\ ncount = NumVn /\ icount = NumF
       /\ vcount + tcount + ncount + icount =
            Cardinality({k \in Lines : file[k].k # "#"})

C12_Witness ==
  /\ pc = "fillopen"
  /\ vcount = 1 /\ ncount = 1 /\ tcount = 0 /\ icount = 0
  /\ Len(file) = 3
  /\ \E k \in Lines : file[k].k = "v" /\ Len(file[k].f) < 3
  /\ \E k \in Lines : file[k].k = "#"

\* C13: after a successful load, record p of the vertex buffer holds at
\* offsets 0..2 the three numbers of the p-th "v " line, and, for a position
\* p that face corners name, all of them with the texcoord index t of a
\* declared texcoord, at offsets 6 and 7 the two numbers of the t-th "vt "
\* line.
C13_TexCoordBackfill ==
  Loaded =>
    \A p \in 1..NumV :
      /\ \A o \in 1..3 : vbuf[(p - 1) * 8 + o] = file[NthOf("v", p)].f[o]
      /\ \A t \in 1..NumVt :
           (/\ Refs(p) # {}
            /\ \A r \in Refs(p) : file[r[1]].c[r[2]][2] = t) =>
             /\ vbuf[(p - 1) * 8 + 7] = file[NthOf("vt", t)].f[1]
             /\ vbuf[(p - 1) * 8 + 8] = file[NthOf("vt", t)].f[2]

C13_Witness ==
  /\ Loaded
  /\ file = OneTriangle
  /\ vbuf[7] = 0 /\ vbuf[8] = 0
  /\ vbuf[15] = 1 /\ vbuf[16] = 0
  /\ vbuf[23] = 0 /\ vbuf[24] = 1

\* the faces among the first k lines
FaceRank(k) == CountIn("f", k)

\* C14: fill_vertices leaves the position indices as parsed; after a
\* successful load entry 3k+j of the index buffer is the position index of
\* corner j of the k-th face line minus 1 (decremented once), and that is
\* what reaches the GPU.
C14_IndexBufferContent ==
  /\ (pc = "filled" \/ Loaded) =>
       \A k \in Lines : file[k].k = "f" =>
         \A j \in 1..3 :
           ibuf[3 * (FaceRank(k) - 1) + j] =
             file[k].c[j][1] - (IF Loaded THEN 1 ELSE 0)
  /\ gpu # <<>> => gpu[2].data = ibuf

C14_Witness ==
  /\ m = "obj"
  /\ file = QuadOfTriangles
  /\ gpu[2].data = <<0, 1, 2, 1, 3, 2>>

\* C15 (as claimed): a well-formed source whose indices are all declared and
\* in which every position is named with one texcoord index only never fails
\* on a line, never reads outside a block nor dies, and has loaded once
\* new() has returned with the source opened by both passes.
C15_NoFalseConflict ==
  (WellFormed /\ InRange /\ \A k \in Lines : ~ConflictAt(k)) =>
    /\ err \in {"None", "SourceUnavailable"}
    /\ ~ub /\ pc # "crashed"
    /\ (pc = "done" /\ err = "None") =>
         m = "obj" /\ obj.vertices = NumV /\ obj.elements = 3 * NumF

\* the moves of the assembler
AssemblerMoves ==
  { <<"Idle", "Scanning">>, <<"Scanning", "Resolving">>,
    <<"Scanning", "Failed">>, <<"Resolving", "Done">> }

\* C16: the assembler only moves Idle -> Scanning -> Resolving -> Done or
\* Scanning -> Failed; it enters Resolving only when the whole file was read
\* without error; Done and Failed are never left and nothing of the
\* assembler is written in Failed; the texcoord back-fill and the index
\* decrement are made in Resolving only, the decrement leading to Done.
C16_AssemblerStateMachine ==
  [][ /\ state' # state => <<state, state'>> \in AssemblerMoves
      /\ (state' = "Resolving" /\ state # "Resolving") =>
           pc = "fill" /\ rd = Len(file) /\ err = "None"
      /\ state = "Failed" => UNCHANGED <<buffers, cursors, rd>>
      /\ (pc = "resolve" /\ pc' # pc) => state = "Resolving" /\ err = "None"
      /\ (DOMAIN vbuf' = DOMAIN vbuf /\ \E x \in DOMAIN vbuf :
            (x - 1) % 8 >= 6 /\ vbuf'[x] # vbuf[x]) => state = "Resolving"
      /\ (DOMAIN ibuf' = DOMAIN ibuf /\ pc # "fill" /\ ibuf' # ibuf) =>
           state = "Resolving" /\ state' = "Done"
    ]_vars

C16_Witness ==
  /\ state = "Done"
  /\ pc = "done"
  /\ icount >= 2
  /\ rd = Len(file)

\* C17: the write cursors of the second pass never pass the counts of the
\* first, they stand at the counts when the scan has ended without error,
\* and every buffer keeps the size it was allocated with.
C17_CursorsWithinCounts ==
  /\ vptr <= vcount /\ tptr <= tcount /\ iptr <= icount
  /\ state \in {"Resolving", "Done"} =>
       vptr = vcount /\ tptr = tcount /\ iptr = icount
  /\ state # "Idle" =>
       /\ Len(vbuf) = vcount * 8 /\ Len(ibuf) = icount * 3
       /\ Len(textures) = tcount * 2 /\ Len(table) = vcount

C17_Witness ==
  /\ state = "Resolving"
  /\ vptr = 2 /\ tptr = 2 /\ iptr = 2
  /\ vcount = 2 /\ tcount = 2 /\ icount = 2

\* C20 (as claimed, on runs without an out-of-bounds access): a load
\* succeeds only if no face line has a normal sub-field of 0 in one of its
\* three corners.
C20_NormalNonZero ==
  (Loaded /\ ~ub) =>
    \A k \in Lines : file[k].k = "f" =>
      \A j \in CornersOf(file[k]) :
        Len(file[k].c[j]) >= 3 => file[k].c[j][3] # 0

\* C18 (as claimed, for well-formed sources whose faces name declared
\* positions only): when the same source has been loaded before and every
\* load could open it, a load that has returned gives what each earlier one
\* gave: the same value of new(), the same error, the same counts of the
\* first pass and of the instance, the same vertex and index buffers.
C18_Determinism ==
  (/\ WellFormed /\ PositionsInRange
   /\ pc = "done" /\ err # "SourceUnavailable") =>
    \A n \in 1..Len(prev) :
      prev[n].err # "SourceUnavailable" => prev[n] = Outcome

\* C21 (as claimed): an instance whose texture could not be constructed is
\* never returned by new() and never drawn.
C21_TextureFailureFailsModel ==
  obj.texture = "NULL" => (m # "obj" /\ ~drawn)

\* the corner, as <<line, corner>>, that named position p last before corner
\* j of line k; <<0, 0>> if none did
LastRef(p, k, j) ==
  LET before == {r \in Refs(p) : r[1] < k \/ (r[1] = k /\ r[2] < j)}
  IN IF before = {} THEN <<0, 0>>
     ELSE CHOOSE r \in before :
            \A q \in before : q[1] < r[1] \/ (q[1] = r[1] /\ q[2] <= r[2])

\* a corner of line k names a position with a texcoord index that differs
\* from the one of the reference before, and that one is not 1
StrictConflictAt(k) ==
  /\ file[k].k = "f"
  /\ \E j \in 1..3 :
       LET r == LastRef(file[k].c[j][1], k, j)
       IN /\ r # <<0, 0>>
          /\ file[r[1]].c[r[2]][2] # 1
          /\ file[r[1]].c[r[2]][2] # file[k].c[j][2]

C26_TableInBounds ==
  [][(pc = "fill" /\ WellFormed) => (ub' = ub)]_vars

\* C27 (as claimed, for sources whose faces name declared positions only):
\* the back-fill reads no texcoord outside the temporary array.
C27_TexCoordReadsInBounds ==
  [][(pc = "resolve" /\ PositionsInRange) => (ub' = ub)]_vars

\* C29 (as claimed): when new() has returned, no FILE handle opened by a
\* pass is open.
C29_HandlesReleased ==
  pc = "done" => handles = 0

\* C28 (as claimed, for well-formed sources whose indices are all
\* declared): when the same lines have been loaded before with two face
\* lines, or two corners of a face, in the other order, and every load could
\* open its source, the load that has returned succeeds iff the earlier one
\* did, and with the same vertex buffer.
C28_FaceOrderIndependence ==
  (/\ WellFormed /\ InRange
   /\ pc = "done" /\ err # "SourceUnavailable") =>
    \A n \in 1..Len(prev) :
      prev[n].err # "SourceUnavailable" =>
        /\ prev[n].m = m
        /\ m = "obj" => prev[n].gpu[1] = gpu[1]

\* the arguments of the running call that have handler o, in order
WithHandler(o) ==
  SelectSeq([k \in 1..Len(args) |-> k], LAMBDA k : Handler(o, args[k]))

\* every argument of the running call is an instance
NoNullArg == \A k \in 1..Len(args) : args[k] # "NULL"

\* C22: when enable(a1, ..., an, NULL) on instances a1..an has returned,
\* the __enable__ handlers invoked are those of the instances that have one,
\* in argument order and once each, and the value returned is true iff each
\* of these handlers returned true; while it runs, the handlers invoked are
\* those of the arguments gone through.
C22_EnableDispatch ==
  (op = "enable" /\ NoNullArg) =>
    /\ calls = SelectSeq(WithHandler("enable"), LAMBDA k : k <= ai)
    /\ dpc = "returned" =>
         /\ ai = Len(args)
         /\ calls = WithHandler("enable")
         /\ ret = (\A k \in 1..Len(args) :
                     HasEnable(args[k]) => EnableRet(args[k]))

C22_Witness ==
  /\ op = "enable" /\ dpc = "returned"
  /\ args = <<"failing", "texture", "window">>
  /\ calls = <<1, 3>>
  /\ ret = FALSE

\* C23: when delete(a1, ..., an, NULL) on instances a1..an has returned,
\* the destructors invoked are those of the instances whose class has a
\* __del__, in argument order and once each; nothing is invoked for the
\* others.
C23_DeleteDispatch ==
  (op = "delete" /\ NoNullArg) =>
    /\ calls = SelectSeq(WithHandler("delete"), LAMBDA k : k <= ai)
    /\ \A x \in 1..Len(calls) : HasDel(args[calls[x]])
    /\ dpc = "returned" => (ai = Len(args) /\ calls = WithHandler("delete"))

C23_Witness ==
  /\ op = "delete" /\ dpc = "returned"
  /\ args = <<"model", "program", "window">>
  /\ calls = <<3>>

\* C24 (as claimed): no texture slot outside texture[0..15] is written, and
\* the texture_cnt a constructor leaves is at most 16.
C24_TextureCapacity ==
  /\ ~over
  /\ ipc = "returned" => texture_cnt <= TextureCapacity

\* C30 (as claimed): when main returns 1 with a window constructed, the
\* destructor of the window has been invoked by the delete before.
C30_WindowDeletedOnFailure ==
  (mpc = "ret1" /\ win = "window") =>
    \E x \in 1..Len(calls) : args[calls[x]] = "window"

=============================================================================
